---- MODULE Spec2Model ----
(***************************************************************************)
(* The TCP voice-answer relay: TCPServer (app/interfaces/tcp_server.py),   *)
(* the polling service loop VoiceAnswer.get_voice_answer                   *)
(* (app/service/voice_answer.py), the Answer Provider MultiModelAgent      *)
(* (app/agents/class_agents.py) and the client TCPClient                   *)
(* (client/tcp_client.py).                                                 *)
(*                                                                         *)
(* The server is one asyncio event loop.  A coroutine runs without         *)
(* interruption between two awaits that really suspend.  assist_user and   *)
(* transform_text_to_speech are "async def" but call the blocking OpenAI   *)
(* client, so one polling cycle (test of received_message .. clearing it)  *)
(* never yields to the handlers: while pollPc is inside a cycle no         *)
(* handle_client step is enabled.  The peers (clients, the kernel's        *)
(* transport) run on their own and interleave freely.                      *)
(***************************************************************************)
EXTENDS Integers, Sequences, FiniteSets, TLC

\* ---------------------------------------------------------------- bounds
NConns == 2          \* connections opened during one run of the server
ChunkSize == 2       \* chunk_size of send_message, scaled from 1024 * 1024
ReadSize == 3        \* n of reader.read(n), scaled from 1024 * 1024
MaxPayload == 4      \* longest payload of the framing specification

Conns == 1 .. NConns

\* ------------------------------------------------------------- constants
NoConn == 0                       \* None, as a writer or an address
NoMessage == <<"None">>           \* None, as a message
WS == " "                         \* a whitespace character
BAD == "xFF"                      \* a byte that is not valid UTF-8
END_MARKER == <<60, 62>>          \* b"<END_OF_AUDIO>", scaled to two bytes
system_prompt_assistant == <<[role |-> "system", content |-> <<"S">>]>>

\* what a peer may send: questions (UTF-8 text, one element per byte), one
\* of them blank, one with leading whitespace, and bytes that are not UTF-8
Questions == {<<"a">>, <<"b">>, <<WS>>, <<WS, "b">>, <<BAD>>}

\* the bytes of the payloads of the framing specification
FrameBytes == {7, 60, 62}

\* --------------------------------------------------------------- helpers
Prefix(s, n) == SubSeq(s, 1, n)
Suffix(s, n) == SubSeq(s, n + 1, Len(s))

\* bytes.decode(): fails on a byte that is not UTF-8
Decodable(data) == \A i \in 1 .. Len(data) : data[i] # BAD

\* str.strip(): drops the leading and the trailing whitespace
RECURSIVE LStrip(_)
LStrip(s) == IF s # <<>> /\ Head(s) = WS THEN LStrip(Tail(s)) ELSE s

RECURSIVE RStrip(_)
RStrip(s) ==
    IF s # <<>> /\ s[Len(s)] = WS THEN RStrip(Prefix(s, Len(s) - 1)) ELSE s

Strip(s) == RStrip(LStrip(s))

\* Python truth value of received_message: None and "" are false
Truthy(m) == m # NoMessage /\ m # <<>>

\* index of the first occurrence of sub in s, 0 when there is none
\* (bytes.__contains__ and the first field of bytes.split)
Find(s, sub) ==
    LET hits == {i \in 1 .. Len(s) - Len(sub) + 1 :
                    SubSeq(s, i, i + Len(sub) - 1) = sub}
    IN  IF hits = {} THEN 0
        ELSE CHOOSE i \in hits : \A j \in hits : i <= j

Contains(s, sub) == Find(s, sub) # 0

\* mutant: the marker is cut out and the bytes after it are kept
SplitFirst_Replace(chunk, marker) ==
    IF Contains(chunk, marker)
    THEN Prefix(chunk, Find(chunk, marker) - 1)
         \o Suffix(chunk, Find(chunk, marker) + Len(marker) - 1)
    ELSE chunk

\* chunk.split(end_marker)[0]
SplitFirst(chunk, marker) ==
    IF Contains(chunk, marker) THEN Prefix(chunk, Find(chunk, marker) - 1)
    ELSE chunk

\* MultiModelAgent.message_maker
message_maker(role, text) == [role |-> role, content |-> text]

\* ------------------------------------------------- the provider stubs
\* The providers are remote services; the model uses deterministic test
\* doubles whose output depends on everything they are handed.
\* Answer Provider: the answer repeats every user message of the
\* conversation it was handed, oldest first.
RECURSIVE UserText(_)
UserText(msgs) ==
    IF msgs = <<>> THEN <<>>
    ELSE (IF Head(msgs).role = "user" THEN Head(msgs).content ELSE <<>>)
         \o UserText(Tail(msgs))

AssistStub(messages) == UserText(messages)

\* Speech Provider: one audio byte per character of the text
ByteOf(ch) == CASE ch = "a" -> 97 [] ch = "b" -> 98 [] OTHER -> 32

SynthesizeStub(text) == [i \in 1 .. Len(text) |-> ByteOf(text[i])]

\* --------------------------------------------------------------- state
VARIABLES
    received_message,   \* TCPServer.received_message
    client_address,     \* TCPServer.client_address
    client_writer,      \* TCPServer.client_writer
    hpc,                \* position of handle_client, per connection
    message,            \* local "message" of handle_client
    pollPc,             \* position of get_voice_answer
    content,            \* local "content" of assist_user (handed to the LLM)
    answer,             \* local "answer" of get_voice_answer
    audio_data,         \* local "audio_data" of get_voice_answer
    status,             \* local "status" of get_voice_answer
    history,            \* MultiModelAgent.history
    c2s,                \* bytes sent by the client, not yet read
    s2c,                \* bytes the server wrote to the connection
    rpos,               \* how many bytes of s2c the client has read
    cpc,                \* position of TCPClient.send_question
    question,           \* argument "question" of send_question
    audio,              \* local bytearray "audio_data" of send_question
    result,             \* what send_question returned
    cwriter,            \* local "writer" of send_question
    \* the WebSocket variant (VoiceAnswerService, WebSocketServer,
    \* WebSocketClient), per connection
    wsIn,               \* messages sent by the client, not yet received
    wsOut,              \* messages the server sent on the connection
    wsHpc,              \* position of WebSocketServer.handle_client
    wsMessage,          \* local "message" of handle_client
    wsAnswer,           \* local "answer" of handle_message
    wsHistory,          \* agent_assistant.history, shared by the handlers
    wsCpc,              \* position of WebSocketClient.send_question
    wsResult,           \* what WebSocketClient.send_question returned
    \* the construction of one MultiModelAgent
    agModule,           \* the module the class is taken from
    agName,             \* model_name
    agKeys,             \* the API keys found in the environment
    agPc,               \* "new", "ready" (constructed) or "raised"
    agType,             \* self.model_type
    agError,            \* the error __init__ raised
    agUsed,             \* a request-time step has run on the agent
    agContext,          \* self.with_context
    agHistory,          \* self.history
    agLog,              \* the assist_user calls that returned: <<question, answer>>
    agRaised,           \* the number of assist_user calls that raised
    \* one make_request of the test client
    mrPc,               \* "idle", "attempt" (a call is connected) or "done"
    mrQuestion,         \* question
    mrRetry,            \* retry_count of the innermost call
    mrAttempts,         \* connections opened so far
    mrLog,              \* the errors logged so far
    mrResult,           \* the RequestResult returned
    \* one call of TCPClient.send_message
    smPc,               \* "idle", "returned" or "raised"
    smPort,             \* the argument port
    smAudio,            \* audio_file, what send_question handed back
    smReturn            \* the pair returned

vars == <<received_message, client_address, client_writer, hpc, message,
          pollPc, content, answer, audio_data, status, history,
          c2s, s2c, rpos, cpc, question, audio, result, cwriter,
          wsIn, wsOut, wsHpc, wsMessage, wsAnswer, wsHistory, wsCpc,
          wsResult,
          agModule, agName, agKeys, agPc, agType, agError, agUsed,
          agContext, agHistory, agLog, agRaised,
          mrPc, mrQuestion, mrRetry, mrAttempts, mrLog, mrResult,
          smPc, smPort, smAudio, smReturn>>

serverVars == <<received_message, client_address, client_writer>>
handlerVars == <<hpc, message>>
pollVars == <<pollPc, content, answer, audio_data, status, history>>
clientVars == <<cpc, question, audio, result, cwriter>>
tcpVars == <<serverVars, handlerVars, pollVars, clientVars, c2s, s2c, rpos>>
wsVars == <<wsIn, wsOut, wsHpc, wsMessage, wsAnswer, wsHistory, wsCpc,
            wsResult>>
agentVars == <<agModule, agName, agKeys, agPc, agType, agError, agUsed,
               agContext, agHistory, agLog, agRaised>>
retryVars == <<mrPc, mrQuestion, mrRetry, mrAttempts, mrLog, mrResult>>
statusVars == <<smPc, smPort, smAudio, smReturn>>
unitVars == <<agentVars, retryVars, statusVars>>

\* the values of result
Pending == [kind |-> "pending", data |-> <<>>]
Failure == [kind |-> "None", data |-> <<>>]        \* return None
TempFile(bytes) == [kind |-> "path", data |-> bytes]    \* return temp_file.name
Raises == [kind |-> "raise", data |-> <<>>]        \* send_question raises

\* positions at which get_voice_answer was left by an exception
Raised == {"assist_raised", "speech_raised"}

\* the event loop runs handlers only while get_voice_answer sleeps
LoopFree == pollPc = "sleep"
ServerUp == pollPc \notin Raised

\* no WebSocket connection has been opened
InitWS ==
    /\ wsIn = [c \in Conns |-> <<>>]
    /\ wsOut = [c \in Conns |-> <<>>]
    /\ wsHpc = [c \in Conns |-> "none"]
    /\ wsMessage = [c \in Conns |-> NoMessage]
    /\ wsAnswer = [c \in Conns |-> <<>>]
    /\ wsHistory = <<>>
    /\ wsCpc = [c \in Conns |-> "init"]
    /\ wsResult = [c \in Conns |-> Pending]

\* no agent has been constructed, no make_request has been called
InitUnits ==
    /\ agModule = "none"
    /\ agName = <<>>
    /\ agKeys = {}
    /\ agPc = "new"
    /\ agType = "unset"
    /\ agError = "none"
    /\ agUsed = FALSE
    /\ agContext = FALSE
    /\ agHistory = <<>>
    /\ agLog = <<>>
    /\ agRaised = 0
    /\ mrPc = "idle"
    /\ mrQuestion = <<>>
    /\ mrRetry = 0
    /\ mrAttempts = 0
    /\ mrLog = <<>>
    /\ mrResult = [question |-> <<>>, error |-> "pending", success |-> FALSE]
    /\ smPc = "idle"
    /\ smPort = <<>>
    /\ smAudio = Pending
    /\ smReturn = [pc |-> "idle", status |-> "none", file |-> Failure]

Init ==
    /\ InitWS
    /\ InitUnits
    /\ received_message = NoMessage
    /\ client_address = NoConn
    /\ client_writer = NoConn
    /\ hpc = [c \in Conns |-> "none"]
    /\ message = [c \in Conns |-> NoMessage]
    /\ pollPc = "sleep"
    /\ content = <<>>
    /\ answer = <<>>
    /\ audio_data = <<>>
    /\ status = FALSE
    /\ history = <<>>
    /\ c2s = [c \in Conns |-> <<>>]
    /\ s2c = [c \in Conns |-> <<>>]
    /\ rpos = [c \in Conns |-> 0]
    /\ cpc = [c \in Conns |-> "init"]
    /\ question = [c \in Conns |-> <<>>]
    /\ audio = [c \in Conns |-> <<>>]
    /\ result = [c \in Conns |-> Pending]
    /\ cwriter = [c \in Conns |-> "unbound"]

Min(a, b) == IF a <= b THEN a ELSE b

\* ------------------------------------------------------------ transport
\* writer.write on a transport that was closed drops the bytes
TransportWrite(stream, c, bytes) ==
    IF hpc[c] = "closed" THEN stream
    ELSE [stream EXCEPT ![c] = @ \o bytes]

\* ------------------------------------------------- TCPServer.send_message
\* for i in range(0, len(data), chunk_size): write(data[i:i + chunk_size]),
\* from offset i on
RECURSIVE WriteChunks(_, _)

\* mutant: the loop stops after the first chunk
WriteChunks_FirstOnly(data, i) ==
    SubSeq(data, i + 1, Min(i + ChunkSize, Len(data)))

WriteChunks(data, i) ==
    IF i >= Len(data) THEN <<>>
    ELSE SubSeq(data, i + 1, Min(i + ChunkSize, Len(data)))
         \o WriteChunks(data, i + ChunkSize)

\* the bytes one successful send_message hands to the writer
Framed(data) == WriteChunks(data, 0) \o END_MARKER

\* the test that guards the send
send_active(address) ==
    client_writer # NoConn /\ (address = NoConn \/ address = client_address)

\* mutant: the send forgets to clear client_writer
send_message_KeepsWriter(data, address) ==
    IF send_active(address)
    THEN [status |-> TRUE,
          stream |-> TransportWrite(s2c, client_writer, Framed(data)),
          client_writer |-> client_writer,
          client_address |-> NoConn,
          received_message |-> NoMessage]
    ELSE [status |-> FALSE,
          stream |-> s2c,
          client_writer |-> client_writer,
          client_address |-> client_address,
          received_message |-> received_message]

\* mutant: the fields are cleared on the failure path as well
send_message_ClearsOnFalse(data, address) ==
    IF send_active(address)
    THEN [status |-> TRUE,
          stream |-> TransportWrite(s2c, client_writer, Framed(data)),
          client_writer |-> NoConn,
          client_address |-> NoConn,
          received_message |-> NoMessage]
    ELSE [status |-> FALSE,
          stream |-> s2c,
          client_writer |-> NoConn,
          client_address |-> NoConn,
          received_message |-> NoMessage]

\* mutant: the send forgets to clear client_address
send_message_KeepsAddress(data, address) ==
    IF send_active(address)
    THEN [status |-> TRUE,
          stream |-> TransportWrite(s2c, client_writer, Framed(data)),
          client_writer |-> NoConn,
          client_address |-> client_address,
          received_message |-> NoMessage]
    ELSE [status |-> FALSE,
          stream |-> s2c,
          client_writer |-> client_writer,
          client_address |-> client_address,
          received_message |-> received_message]

\* send_message(answer, address): the returned status and the new fields
send_message(data, address) ==
    IF send_active(address)
    THEN [status |-> TRUE,
          stream |-> TransportWrite(s2c, client_writer, Framed(data)),
          client_writer |-> NoConn,
          client_address |-> NoConn,
          received_message |-> NoMessage]
    ELSE [status |-> FALSE,
          stream |-> s2c,
          client_writer |-> client_writer,
          client_address |-> client_address,
          received_message |-> received_message]

\* ------------------------------------------------ TCPServer.handle_client
\* asyncio starts one handle_client per accepted connection, in the order
\* in which the connections were made; up to the first await it records the
\* connection as the active client.
HandlerAccept(c) ==
    /\ LoopFree
    /\ hpc[c] = "none"
    /\ cpc[c] # "init"
    /\ \A d \in Conns : d < c => hpc[d] # "none"
    /\ client_address' = c
    /\ client_writer' = c
    /\ hpc' = [hpc EXCEPT ![c] = "read"]
    /\ UNCHANGED <<received_message, message, pollVars, c2s, s2c, rpos,
                   clientVars>>
    /\ UNCHANGED <<wsVars, unitVars>>

\* reader.read returned data: decode, strip, store, enter the wait loop
\* (left at once when client_writer is already None); a decode error goes
\* through "except" to "finally"
HandlerRead(c) ==
    /\ LoopFree
    /\ hpc[c] = "read"
    /\ c2s[c] # <<>>
    /\ \E n \in 1 .. Min(ReadSize, Len(c2s[c])) :
          LET data == Prefix(c2s[c], n) IN
          /\ c2s' = [c2s EXCEPT ![c] = Suffix(c2s[c], n)]
          /\ IF Decodable(data)
             THEN /\ message' = [message EXCEPT ![c] = Strip(data)]
                  /\ received_message' = Strip(data)
                  /\ hpc' = [hpc EXCEPT ![c] =
                                IF client_writer # NoConn THEN "wait"
                                ELSE "closed"]
             ELSE /\ hpc' = [hpc EXCEPT ![c] = "closed"]
                  /\ UNCHANGED <<message, received_message>>
    /\ UNCHANGED <<client_address, client_writer, pollVars, s2c, rpos,
                   clientVars>>
    /\ UNCHANGED <<wsVars, unitVars>>

\* mutant: the "return" is missing, the empty data is decoded and stored
HandlerReadEmpty_FallsThrough(c) ==
    /\ LoopFree
    /\ hpc[c] = "read"
    /\ c2s[c] = <<>>
    /\ cpc[c] \in {"aborted", "done"}
    /\ message' = [message EXCEPT ![c] = <<>>]
    /\ received_message' = <<>>
    /\ hpc' = [hpc EXCEPT ![c] = IF client_writer # NoConn THEN "wait"
                                 ELSE "closed"]
    /\ UNCHANGED <<client_address, client_writer, pollVars, c2s, s2c, rpos,
                   clientVars>>
    /\ UNCHANGED <<wsVars, unitVars>>

\* reader.read returned b"": the peer closed without (more) data
HandlerReadEmpty(c) ==
    /\ LoopFree
    /\ hpc[c] = "read"
    /\ c2s[c] = <<>>
    /\ cpc[c] \in {"aborted", "done"}
    /\ hpc' = [hpc EXCEPT ![c] = "closed"]
    /\ UNCHANGED <<serverVars, message, pollVars, c2s, s2c, rpos, clientVars>>
    /\ UNCHANGED <<wsVars, unitVars>>

\* the wait loop finds client_writer None: finally, writer.close()
HandlerWake(c) ==
    /\ LoopFree
    /\ hpc[c] = "wait"
    /\ client_writer = NoConn
    /\ hpc' = [hpc EXCEPT ![c] = "closed"]
    /\ UNCHANGED <<serverVars, message, pollVars, c2s, s2c, rpos, clientVars>>
    /\ UNCHANGED <<wsVars, unitVars>>

\* ------------------------------------------- VoiceAnswer.get_voice_answer
\* an exception leaves get_voice_answer; asyncio.run cancels the server
\* task and every handle_client, whose "finally" closes its writer
\* mutant: the exception is contained and the handlers are left running
CancelHandlers_Kept == hpc

CancelHandlers ==
    [c \in Conns |-> IF hpc[c] \in {"read", "wait"} THEN "closed" ELSE hpc[c]]

\* what assist_user hands to the model: system prompt, history, question
MakeContent(q) ==
    system_prompt_assistant \o history \o <<message_maker("user", q)>>

\* step 2 of the cycle: the Answer Provider returns
AssistOk ==
    /\ pollPc = "sleep"
    /\ Truthy(received_message)
    /\ content' = MakeContent(received_message)
    /\ answer' = <<[role |-> "assistant"],
                   [content |-> AssistStub(content')]>>
    /\ history' = history \o <<message_maker("user", received_message),
                               message_maker("assistant", AssistStub(content'))>>
    /\ pollPc' = "speech"
    /\ UNCHANGED <<serverVars, handlerVars, audio_data, status, c2s, s2c,
                   rpos, clientVars>>
    /\ UNCHANGED <<wsVars, unitVars>>

\* step 2 of the cycle: the Answer Provider raises
AssistFail ==
    /\ pollPc = "sleep"
    /\ Truthy(received_message)
    /\ content' = MakeContent(received_message)
    /\ pollPc' = "assist_raised"
    /\ hpc' = CancelHandlers
    /\ UNCHANGED <<serverVars, message, answer, audio_data, status, history,
                   c2s, s2c, rpos, clientVars>>
    /\ UNCHANGED <<wsVars, unitVars>>

\* mutant: the question, not the answer, is handed to the Speech Provider
SpeechOk_Question ==
    /\ pollPc = "speech"
    /\ audio_data' = SynthesizeStub(received_message)
    /\ pollPc' = "send"
    /\ UNCHANGED <<serverVars, handlerVars, content, answer, status, history,
                   c2s, s2c, rpos, clientVars>>
    /\ UNCHANGED <<wsVars, unitVars>>

\* step 3 of the cycle: the Speech Provider returns
SpeechOk ==
    /\ pollPc = "speech"
    /\ audio_data' = SynthesizeStub(answer[2].content)
    /\ pollPc' = "send"
    /\ UNCHANGED <<serverVars, handlerVars, content, answer, status, history,
                   c2s, s2c, rpos, clientVars>>
    /\ UNCHANGED <<wsVars, unitVars>>

\* step 3 of the cycle: the Speech Provider raises
SpeechFail ==
    /\ pollPc = "speech"
    /\ pollPc' = "speech_raised"
    /\ hpc' = CancelHandlers
    /\ UNCHANGED <<serverVars, message, content, answer, audio_data, status,
                   history, c2s, s2c, rpos, clientVars>>
    /\ UNCHANGED <<wsVars, unitVars>>

\* mutant: the message is cleared by a successful send_message only
SendResponse_KeepsOnFalse ==
    /\ pollPc = "send"
    /\ LET r == send_message(audio_data, client_address) IN
          /\ status' = r.status
          /\ s2c' = r.stream
          /\ client_writer' = r.client_writer
          /\ client_address' = r.client_address
          /\ received_message' = r.received_message
    /\ pollPc' = "sleep"
    /\ UNCHANGED <<handlerVars, content, answer, audio_data, history, c2s,
                   rpos, clientVars>>
    /\ UNCHANGED <<wsVars, unitVars>>

\* step 4 of the cycle: send_message, then received_message = None
SendResponse ==
    /\ pollPc = "send"
    /\ LET r == send_message(audio_data, client_address) IN
          /\ status' = r.status
          /\ s2c' = r.stream
          /\ client_writer' = r.client_writer
          /\ client_address' = r.client_address
    /\ received_message' = NoMessage
    /\ pollPc' = "sleep"
    /\ UNCHANGED <<handlerVars, content, answer, audio_data, history, c2s,
                   rpos, clientVars>>
    /\ UNCHANGED <<wsVars, unitVars>>

\* ------------------------------------------------ TCPClient.send_question
\* with NamedTemporaryFile: write the audio and return the path; an error
\* while storing goes to "except": return None
StoreAudio(bytes, stored) == IF stored THEN TempFile(bytes) ELSE Failure

\* mutant: the writer is closed at the end of "try", not in "finally"
Finally_OnSuccessOnly(w, ret) ==
    IF w = "unbound" THEN [result |-> Raises, writer |-> w]
    ELSE [result |-> ret,
          writer |-> IF ret.kind = "path" THEN "closed" ELSE w]

\* "finally: writer.close()" on the way out with return value ret; with
\* "writer" never bound the statement raises UnboundLocalError, which
\* replaces the return value
Finally(w, ret) ==
    IF w = "unbound" THEN [result |-> Raises, writer |-> w]
    ELSE [result |-> ret, writer |-> "closed"]

\* send_question exits with return value ret
Exit(c, ret) ==
    /\ result' = [result EXCEPT ![c] = Finally(cwriter[c], ret).result]
    /\ cwriter' = [cwriter EXCEPT ![c] = Finally(cwriter[c], ret).writer]
    /\ cpc' = [cpc EXCEPT ![c] = "done"]

\* open_connection succeeds while the server listens
ClientConnect(c) ==
    /\ ServerUp
    /\ cpc[c] = "init"
    /\ \A d \in Conns : d < c => cpc[d] # "init"
    /\ cpc' = [cpc EXCEPT ![c] = "connected"]
    /\ cwriter' = [cwriter EXCEPT ![c] = "open"]
    /\ UNCHANGED <<serverVars, handlerVars, pollVars, c2s, s2c, rpos,
                   question, audio, result>>
    /\ UNCHANGED <<wsVars, unitVars>>

\* open_connection raises (nothing listens once the server has stopped):
\* "except" returns None, then "finally" runs with "writer" unbound
ClientConnectRefused(c) ==
    /\ ~ServerUp
    /\ cpc[c] = "init"
    /\ \A d \in Conns : d < c => cpc[d] # "init"
    /\ Exit(c, Failure)
    /\ UNCHANGED <<serverVars, handlerVars, pollVars, c2s, s2c, rpos,
                   question, audio>>
    /\ UNCHANGED <<wsVars, unitVars>>

\* writer.write(question.encode()); await writer.drain()
ClientSend(c, q) ==
    /\ cpc[c] = "connected"
    /\ question' = [question EXCEPT ![c] = q]
    /\ c2s' = [c2s EXCEPT ![c] = q]
    /\ cpc' = [cpc EXCEPT ![c] = "reading"]
    /\ UNCHANGED <<serverVars, handlerVars, pollVars, s2c, rpos, audio,
                   result, cwriter>>
    /\ UNCHANGED <<wsVars, unitVars>>

\* a peer that closes its connection without sending any data
ClientAbort(c) ==
    /\ cpc[c] = "connected"
    /\ cpc' = [cpc EXCEPT ![c] = "aborted"]
    /\ cwriter' = [cwriter EXCEPT ![c] = "closed"]
    /\ UNCHANGED <<serverVars, handlerVars, pollVars, c2s, s2c, rpos,
                   question, audio, result>>
    /\ UNCHANGED <<wsVars, unitVars>>

\* one pass of the read loop with a non-empty chunk; the transport hands
\* over any non-empty part of what has arrived
ClientRead(c) ==
    /\ cpc[c] = "reading"
    /\ rpos[c] < Len(s2c[c])
    /\ \E n \in 1 .. Min(ReadSize, Len(s2c[c]) - rpos[c]) :
          LET chunk == SubSeq(s2c[c], rpos[c] + 1, rpos[c] + n) IN
          /\ rpos' = [rpos EXCEPT ![c] = @ + n]
          /\ IF Contains(chunk, END_MARKER)
             THEN /\ audio' = [audio EXCEPT ![c] =
                                  @ \o SplitFirst(chunk, END_MARKER)]
                  /\ \E stored \in BOOLEAN :
                        Exit(c, StoreAudio(audio'[c], stored))
             ELSE /\ audio' = [audio EXCEPT ![c] = @ \o chunk]
                  /\ UNCHANGED <<result, cpc, cwriter>>
    /\ UNCHANGED <<serverVars, handlerVars, pollVars, c2s, s2c, question>>
    /\ UNCHANGED <<wsVars, unitVars>>

\* the read loop gets b"": the server closed the connection
ClientReadEOF(c) ==
    /\ cpc[c] = "reading"
    /\ rpos[c] = Len(s2c[c])
    /\ hpc[c] = "closed"
    /\ \E stored \in BOOLEAN : Exit(c, StoreAudio(audio[c], stored))
    /\ UNCHANGED <<serverVars, handlerVars, pollVars, c2s, s2c, rpos,
                   question, audio>>
    /\ UNCHANGED <<wsVars, unitVars>>

\* the read raises: the server went away before it accepted the connection
ClientReadReset(c) ==
    /\ cpc[c] = "reading"
    /\ hpc[c] = "none"
    /\ ~ServerUp
    /\ Exit(c, Failure)
    /\ UNCHANGED <<serverVars, handlerVars, pollVars, c2s, s2c, rpos,
                   question, audio>>
    /\ UNCHANGED <<wsVars, unitVars>>

\* ------------------------------------------------------- specification
Next ==
    \/ \E c \in Conns : HandlerAccept(c)
    \/ \E c \in Conns : HandlerRead(c)
    \/ \E c \in Conns : HandlerReadEmpty(c)
    \/ \E c \in Conns : HandlerWake(c)
    \/ AssistOk
    \/ AssistFail
    \/ SpeechOk
    \/ SpeechFail
    \/ SendResponse
    \/ \E c \in Conns : ClientConnect(c)
    \/ \E c \in Conns : ClientConnectRefused(c)
    \/ \E c \in Conns, q \in Questions : ClientSend(c, q)
    \/ \E c \in Conns : ClientAbort(c)
    \/ \E c \in Conns : ClientRead(c)
    \/ \E c \in Conns : ClientReadEOF(c)
    \/ \E c \in Conns : ClientReadReset(c)

Spec == Init /\ [][Next]_vars

TypeOK ==
    /\ client_writer \in Conns \cup {NoConn}
    /\ client_address \in Conns \cup {NoConn}
    /\ hpc \in [Conns -> {"none", "read", "wait", "closed"}]
    /\ pollPc \in {"sleep", "speech", "send"} \cup Raised
    /\ cpc \in [Conns -> {"init", "connected", "reading", "aborted", "done"}]
    /\ \A c \in Conns : rpos[c] \in 0 .. Len(s2c[c])

\* ------------------------------------------------ framing specification
\* The framing of one response for every payload: the cycle of connection
\* 1 has reached send_message and the Speech Provider has returned an
\* arbitrary payload of at most MaxPayload bytes.
Payloads == UNION {[1 .. n -> FrameBytes] : n \in 0 .. MaxPayload}

InitFraming ==
    /\ InitWS
    /\ InitUnits
    /\ received_message = <<"a">>
    /\ client_address = 1
    /\ client_writer = 1
    /\ hpc = [c \in Conns |-> IF c = 1 THEN "wait" ELSE "none"]
    /\ message = [c \in Conns |-> IF c = 1 THEN <<"a">> ELSE NoMessage]
    /\ pollPc = "send"
    /\ content = system_prompt_assistant \o <<message_maker("user", <<"a">>)>>
    /\ answer = <<[role |-> "assistant"], [content |-> AssistStub(content)]>>
    /\ audio_data \in Payloads
    /\ status = FALSE
    /\ history = <<message_maker("user", <<"a">>),
                   message_maker("assistant", AssistStub(content))>>
    /\ c2s = [c \in Conns |-> <<>>]
    /\ s2c = [c \in Conns |-> <<>>]
    /\ rpos = [c \in Conns |-> 0]
    /\ cpc = [c \in Conns |-> IF c = 1 THEN "reading" ELSE "init"]
    /\ question = [c \in Conns |-> IF c = 1 THEN <<"a">> ELSE <<>>]
    /\ audio = [c \in Conns |-> <<>>]
    /\ result = [c \in Conns |-> Pending]
    /\ cwriter = [c \in Conns |-> IF c = 1 THEN "open" ELSE "unbound"]

NextFraming ==
    \/ SendResponse
    \/ HandlerWake(1)
    \/ ClientRead(1)
    \/ ClientReadEOF(1)

SpecFraming == InitFraming /\ [][NextFraming]_vars

\* ------------------------------------------------- the WebSocket variant
\* the questions a WebSocket client sends
WsQuestions == {<<"a">>, <<"b">>}

\* the messages the server sends: the audio as one binary message, or
\* json.dumps({"error": str(e)}) as one text message
AudioFrame(bytes) == [type |-> "binary", data |-> bytes]
ErrorFrame == [type |-> "text", data |-> <<>>]

\* the event loop is not inside a handler: assist_user and
\* transform_text_to_speech call the providers without yielding
WsLoopFree == \A c \in Conns : wsHpc[c] \notin {"assist", "speech"}

\* what the Speech Provider can return for a text
WsSpeechOutcomes(text) == {SynthesizeStub(text), <<>>}

\* mutant: the connection written to is the one accepted last
WsTarget_Shared(c) ==
    CHOOSE d \in Conns :
        wsHpc[d] # "none" /\ \A e \in Conns : wsHpc[e] # "none" => e <= d

\* the "websocket" handle_message sends on: the parameter handed over by
\* the handle_client of that connection
WsTarget(c) == c

\* websocket.send(frame) by the handler of connection c
WsSendFrame(c, frame) ==
    wsOut' = [wsOut EXCEPT ![WsTarget(c)] = Append(@, frame)]

\* websockets.connect succeeds; the server starts handle_client, which
\* waits in "async for message in websocket"
WsConnect(c) ==
    /\ WsLoopFree
    /\ wsCpc[c] = "init"
    /\ \A d \in Conns : d < c => wsCpc[d] # "init"
    /\ wsCpc' = [wsCpc EXCEPT ![c] = "connected"]
    /\ wsHpc' = [wsHpc EXCEPT ![c] = "recv"]
    /\ UNCHANGED <<wsIn, wsOut, wsMessage, wsAnswer, wsHistory, wsResult>>
    /\ UNCHANGED <<tcpVars, unitVars>>

\* await websocket.send(question)
WsClientSend(c, q) ==
    /\ wsCpc[c] = "connected"
    /\ wsIn' = [wsIn EXCEPT ![c] = Append(@, q)]
    /\ wsCpc' = [wsCpc EXCEPT ![c] = "recv"]
    /\ UNCHANGED <<wsOut, wsHpc, wsMessage, wsAnswer, wsHistory, wsResult>>
    /\ UNCHANGED <<tcpVars, unitVars>>

\* "async for" yields the next message and message_handler is called
WsRecv(c) ==
    /\ WsLoopFree
    /\ wsHpc[c] = "recv"
    /\ wsIn[c] # <<>>
    /\ wsMessage' = [wsMessage EXCEPT ![c] = Head(wsIn[c])]
    /\ wsIn' = [wsIn EXCEPT ![c] = Tail(@)]
    /\ wsHpc' = [wsHpc EXCEPT ![c] = "assist"]
    /\ UNCHANGED <<wsOut, wsAnswer, wsHistory, wsCpc, wsResult>>
    /\ UNCHANGED <<tcpVars, unitVars>>

\* what assist_user hands to the model for the message of connection c
WsContent(c) ==
    system_prompt_assistant \o wsHistory
        \o <<message_maker("user", wsMessage[c])>>

\* handle_message: the Answer Provider returns
WsAssistOk(c) ==
    /\ wsHpc[c] = "assist"
    /\ wsAnswer' = [wsAnswer EXCEPT ![c] =
                       <<[role |-> "assistant"],
                         [content |-> AssistStub(WsContent(c))]>>]
    /\ wsHistory' = wsHistory \o
                        <<message_maker("user", wsMessage[c]),
                          message_maker("assistant", AssistStub(WsContent(c)))>>
    /\ wsHpc' = [wsHpc EXCEPT ![c] = "speech"]
    /\ UNCHANGED <<wsIn, wsOut, wsMessage, wsCpc, wsResult>>
    /\ UNCHANGED <<tcpVars, unitVars>>

\* mutant: the exception leaves handle_client, which ends without a reply
WsAssistFail_Ends(c) ==
    /\ wsHpc[c] = "assist"
    /\ wsHpc' = [wsHpc EXCEPT ![c] = "closed"]
    /\ UNCHANGED <<wsIn, wsOut, wsMessage, wsAnswer, wsHistory, wsCpc,
                   wsResult>>
    /\ UNCHANGED <<tcpVars, unitVars>>

\* handle_message: the Answer Provider raises; handle_client sends the
\* error and goes on with the next message
WsAssistFail(c) ==
    /\ wsHpc[c] = "assist"
    /\ WsSendFrame(c, ErrorFrame)
    /\ wsHpc' = [wsHpc EXCEPT ![c] = "recv"]
    /\ UNCHANGED <<wsIn, wsMessage, wsAnswer, wsHistory, wsCpc, wsResult>>
    /\ UNCHANGED <<tcpVars, unitVars>>

\* handle_message: the Speech Provider returns; the audio is sent when
\* it is not empty, otherwise the failure is only logged
WsSpeech(c) ==
    /\ wsHpc[c] = "speech"
    /\ \E data \in WsSpeechOutcomes(wsAnswer[c][2].content) :
          IF data # <<>>
          THEN WsSendFrame(c, AudioFrame(data))
          ELSE UNCHANGED wsOut
    /\ wsHpc' = [wsHpc EXCEPT ![c] = "recv"]
    /\ UNCHANGED <<wsIn, wsMessage, wsAnswer, wsHistory, wsCpc, wsResult>>
    /\ UNCHANGED <<tcpVars, unitVars>>

\* handle_message: the Speech Provider raises; handle_client sends the
\* error and goes on with the next message
WsSpeechFail(c) ==
    /\ wsHpc[c] = "speech"
    /\ WsSendFrame(c, ErrorFrame)
    /\ wsHpc' = [wsHpc EXCEPT ![c] = "recv"]
    /\ UNCHANGED <<wsIn, wsMessage, wsAnswer, wsHistory, wsCpc, wsResult>>
    /\ UNCHANGED <<tcpVars, unitVars>>

\* mutant: whatever was received is stored and its path returned
WsClientRecv_StoresText(c) ==
    /\ wsCpc[c] = "recv"
    /\ wsOut[c] # <<>>
    /\ wsResult' = [wsResult EXCEPT ![c] = TempFile(wsOut[c][1].data)]
    /\ wsCpc' = [wsCpc EXCEPT ![c] = "done"]
    /\ UNCHANGED <<wsIn, wsOut, wsHpc, wsMessage, wsAnswer, wsHistory>>
    /\ UNCHANGED <<tcpVars, unitVars>>

\* the client's websocket.recv() returns the message of the server; the
\* audio is stored, a text message makes temp_file.write raise and
\* send_question return None
WsClientRecv(c) ==
    /\ wsCpc[c] = "recv"
    /\ wsOut[c] # <<>>
    /\ wsResult' = [wsResult EXCEPT ![c] =
                       IF wsOut[c][1].type = "binary"
                       THEN TempFile(wsOut[c][1].data)
                       ELSE Failure]
    /\ wsCpc' = [wsCpc EXCEPT ![c] = "done"]
    /\ UNCHANGED <<wsIn, wsOut, wsHpc, wsMessage, wsAnswer, wsHistory>>
    /\ UNCHANGED <<tcpVars, unitVars>>

\* the client has left "async with": "async for" ends, handle_client
\* returns
WsHandlerClose(c) ==
    /\ WsLoopFree
    /\ wsHpc[c] = "recv"
    /\ wsIn[c] = <<>>
    /\ wsCpc[c] = "done"
    /\ wsHpc' = [wsHpc EXCEPT ![c] = "closed"]
    /\ UNCHANGED <<wsIn, wsOut, wsMessage, wsAnswer, wsHistory, wsCpc,
                   wsResult>>
    /\ UNCHANGED <<tcpVars, unitVars>>

NextWS ==
    \/ \E c \in Conns : WsConnect(c)
    \/ \E c \in Conns, q \in WsQuestions : WsClientSend(c, q)
    \/ \E c \in Conns : WsRecv(c)
    \/ \E c \in Conns : WsAssistOk(c)
    \/ \E c \in Conns : WsAssistFail(c)
    \/ \E c \in Conns : WsSpeech(c)
    \/ \E c \in Conns : WsSpeechFail(c)
    \/ \E c \in Conns : WsClientRecv(c)
    \/ \E c \in Conns : WsHandlerClose(c)

SpecWS == Init /\ [][NextWS]_vars

\* ------------------------------------------ MultiModelAgent.__init__
\* the two modules that define MultiModelAgent
AgentModules == {"agents", "instances"}

\* model names, one character per element
ModelNames ==
    { <<"g", "p", "t", "-", "4">>,
      <<"G", "P", "T">>,
      <<"g", "p", "t", "-", "t", "t", "s">>,
      <<"t", "t", "s", "-", "1">>,
      <<"T", "t", "S">>,
      <<"q", "w", "e", "n">>,
      <<"Q", "w", "e", "n", "-", "g", "p", "t">>,
      <<"q", "w", "e", "n", "-", "t", "t", "s">>,
      <<"c", "l", "a", "u", "d", "e">>,
      <<"l", "l", "a", "m", "a">>,
      <<"g", "p">>,
      <<"q", "w", "-", "e", "n">>,
      <<>> }

\* the API keys the environment may hold
ApiKeys == {"OPENAI_AI_KEY", "QWEN_AI_KEY", "ANTHROPIC_API_KEY"}

\* str.lower on one character
LowerChar(ch) ==
    CASE ch = "G" -> "g" [] ch = "P" -> "p" [] ch = "T" -> "t"
      [] ch = "S" -> "s" [] ch = "Q" -> "q" [] OTHER -> ch

\* model_name.lower()
Lower(name) == [i \in 1 .. Len(name) |-> LowerChar(name[i])]

\* mutant: the test for "qwen" comes first
SelectProvider_QwenFirst(mod, name) ==
    IF Contains(Lower(name), <<"q", "w", "e", "n">>) THEN "QWEN"
    ELSE IF \/ Contains(Lower(name), <<"g", "p", "t">>)
            \/ mod = "agents" /\ Contains(Lower(name), <<"t", "t", "s">>)
    THEN "CHATGPT"
    ELSE IF mod = "instances"
            /\ Contains(Lower(name), <<"c", "l", "a", "u", "d", "e">>)
    THEN "CLAUDE"
    ELSE "none"

\* mutant: the first test is written '"gpt" or "tts" in model_name.lower()'
SelectProvider_AlwaysTrue(mod, name) == "CHATGPT"

\* the if/elif chain of __init__: the provider a name selects, "none" for
\* the else branch
SelectProvider(mod, name) ==
    IF mod = "agents"
    THEN IF \/ Contains(Lower(name), <<"g", "p", "t">>)
            \/ Contains(Lower(name), <<"t", "t", "s">>)
         THEN "CHATGPT"
         ELSE IF Contains(Lower(name), <<"q", "w", "e", "n">>)
         THEN "QWEN"
         ELSE "none"
    ELSE IF Contains(Lower(name), <<"g", "p", "t">>)
         THEN "CHATGPT"
         ELSE IF Contains(Lower(name), <<"c", "l", "a", "u", "d", "e">>)
         THEN "CLAUDE"
         ELSE IF Contains(Lower(name), <<"q", "w", "e", "n">>)
         THEN "QWEN"
         ELSE "none"

\* os.getenv of the branch taken
KeyOf(provider) ==
    CASE provider = "CHATGPT" -> "OPENAI_AI_KEY"
      [] provider = "QWEN" -> "QWEN_AI_KEY"
      [] OTHER -> "ANTHROPIC_API_KEY"

\* MultiModelAgent(model_name=name, with_context=ctx) in an environment
\* that holds keys:
\* the else branch raises ValueError; app/agents raises ValueError when
\* the key of the branch is missing, app/instances hands the missing key
\* to the provider's client, which may refuse it
AgentConstruct(mod, name, keys, ctx) ==
    /\ agPc = "new"
    /\ agModule' = mod
    /\ agContext' = ctx
    /\ agName' = name
    /\ agKeys' = keys
    /\ LET provider == SelectProvider(mod, name) IN
       \/ /\ provider = "none"
          /\ agPc' = "raised"
          /\ agError' = "Unrecognized model"
          /\ agType' = agType
       \/ /\ provider # "none"
          /\ KeyOf(provider) \notin keys
          /\ agPc' = "raised"
          /\ agError' = IF mod = "agents" THEN "key not found"
                        ELSE "client error"
          /\ agType' = agType
       \/ /\ provider # "none"
          /\ KeyOf(provider) \in keys \/ mod = "instances"
          /\ agPc' = "ready"
          /\ agError' = agError
          /\ agType' = provider
    /\ UNCHANGED <<agUsed, agHistory, agLog, agRaised>>
    /\ UNCHANGED <<tcpVars, wsVars, retryVars, statusVars>>

\* the assist_user calls made on one agent
MaxCalls == 3

\* the questions put to the agent
AgentQuestions == {<<"a">>, <<"b">>}

\* message.content of the provider's response, whatever the messages
\* handed to it: a text or None
Replies == {<<"a">>, NoMessage}

\* the answer assist_user takes from the response: app/agents turns a
\* missing content into "", app/instances keeps None
AnswerOf(mod, reply) ==
    IF mod = "agents" /\ reply = NoMessage THEN <<>> ELSE reply

\* mutant: the pair is stored whether or not the agent keeps context
StoreHistory_Always(q, a) ==
    agHistory \o <<message_maker("user", q), message_maker("assistant", a)>>

\* the history after a call that returned
StoreHistory(q, a) ==
    IF agContext
    THEN agHistory \o <<message_maker("user", q),
                        message_maker("assistant", a)>>
    ELSE agHistory

\* a request-time step on the constructed agent (there is no agent
\* object when __init__ raised): assist_user(question), the provider
\* returns
AgentRequest(q, reply) ==
    /\ agPc = "ready"
    /\ Len(agLog) + agRaised < MaxCalls
    /\ agUsed' = TRUE
    /\ agHistory' = StoreHistory(q, AnswerOf(agModule, reply))
    /\ agLog' = Append(agLog, <<q, AnswerOf(agModule, reply)>>)
    /\ UNCHANGED <<agModule, agName, agKeys, agPc, agType, agError,
                   agContext, agRaised>>
    /\ UNCHANGED <<tcpVars, wsVars, retryVars, statusVars>>

\* assist_user(question), the provider call raises (or the response has
\* no choice to index): the exception leaves assist_user before the
\* history is touched
AgentRequestRaises ==
    /\ agPc = "ready"
    /\ Len(agLog) + agRaised < MaxCalls
    /\ agUsed' = TRUE
    /\ agRaised' = agRaised + 1
    /\ UNCHANGED <<agModule, agName, agKeys, agPc, agType, agError,
                   agContext, agHistory, agLog>>
    /\ UNCHANGED <<tcpVars, wsVars, retryVars, statusVars>>

NextAgent ==
    \/ \E mod \in AgentModules, name \in ModelNames, keys \in SUBSET ApiKeys,
          ctx \in BOOLEAN :
          AgentConstruct(mod, name, keys, ctx)
    \/ \E q \in AgentQuestions, reply \in Replies : AgentRequest(q, reply)
    \/ AgentRequestRaises

SpecAgent == Init /\ [][NextAgent]_vars

\* ------------------------------------------- test client: make_request
MAX_RETRIES == 3

\* RequestResult(question, error=error): success is "error is None"
RequestResult(q, error) ==
    [question |-> q, error |-> error, success |-> (error = "None")]

\* mutant: the test is retry_count <= MAX_RETRIES
MayRetry_Inclusive(retry_count) == retry_count <= MAX_RETRIES

\* if retry_count < MAX_RETRIES
MayRetry(retry_count) == retry_count < MAX_RETRIES

\* make_request(uri, question): the first call, with retry_count = 0,
\* opens its connection
MrStart(q) ==
    /\ mrPc = "idle"
    /\ mrQuestion' = q
    /\ mrRetry' = 0
    /\ mrAttempts' = 1
    /\ mrPc' = "attempt"
    /\ UNCHANGED <<mrLog, mrResult>>
    /\ UNCHANGED <<tcpVars, wsVars, agentVars, statusVars>>

\* send and recv return within the time limit
MrAttemptOk ==
    /\ mrPc = "attempt"
    /\ mrResult' = RequestResult(mrQuestion, "None")
    /\ mrPc' = "done"
    /\ UNCHANGED <<mrQuestion, mrRetry, mrAttempts, mrLog>>
    /\ UNCHANGED <<tcpVars, wsVars, agentVars, statusVars>>

\* an attempt ends in asyncio.TimeoutError or in a WebSocketException:
\* the error is logged, then either make_request is called again with
\* retry_count + 1 or the error is returned
MrAttemptRetryable(error) ==
    /\ mrPc = "attempt"
    /\ mrLog' = Append(mrLog, error)
    /\ IF MayRetry(mrRetry)
       THEN /\ mrRetry' = mrRetry + 1
            /\ mrAttempts' = mrAttempts + 1
            /\ UNCHANGED <<mrPc, mrResult>>
       ELSE /\ mrResult' = RequestResult(mrQuestion, error)
            /\ mrPc' = "done"
            /\ UNCHANGED <<mrRetry, mrAttempts>>
    /\ UNCHANGED mrQuestion
    /\ UNCHANGED <<tcpVars, wsVars, agentVars, statusVars>>

\* an attempt ends in any other exception: logged and returned
MrAttemptOther ==
    /\ mrPc = "attempt"
    /\ mrLog' = Append(mrLog, "Unexpected error")
    /\ mrResult' = RequestResult(mrQuestion, "Unexpected error")
    /\ mrPc' = "done"
    /\ UNCHANGED <<mrQuestion, mrRetry, mrAttempts>>
    /\ UNCHANGED <<tcpVars, wsVars, agentVars, statusVars>>

NextRetry ==
    \/ \E q \in WsQuestions : MrStart(q)
    \/ MrAttemptOk
    \/ \E error \in {"Request timed out", "WebSocket error"} :
          MrAttemptRetryable(error)
    \/ MrAttemptOther

SpecRetry == Init /\ [][NextRetry]_vars

\* every attempt ends: it returns, raises, or runs into the time limit
SpecRetryFair == SpecRetry /\ WF_vars(NextRetry)

\* ------------------------------------------- TCPClient.send_message
\* the port arguments of the user interface, one character per element
Ports ==
    { <<"8", "8">>, <<"9">>, <<WS, "8", "0", WS>>, <<"8", "0", "a">>,
      <<"a">>, <<WS>>, <<>> }

Digits == {"0", "8", "9"}

\* int(port) succeeds: digits, surrounding whitespace allowed
IntOk(port) ==
    /\ Strip(port) # <<>>
    /\ \A i \in 1 .. Len(Strip(port)) : Strip(port)[i] \in Digits

\* what send_question hands to send_message: a path, None, or an
\* exception
SqOutcomes == {Failure, Raises} \cup {TempFile(bytes) : bytes \in Payloads}

\* the value "None" of the second element of the returned pair
NoFile == [kind |-> "None", data |-> <<>>]

\* mutant: only ValueError is caught
ClientSendMessage_NoCatch(port, sq) ==
    IF ~IntOk(port)
    THEN [pc |-> "returned", status |-> "Error", file |-> NoFile]
    ELSE IF sq = Raises
    THEN [pc |-> "raised", status |-> "none", file |-> NoFile]
    ELSE IF sq.kind = "path"
    THEN [pc |-> "returned", status |-> "Message sent successfully",
          file |-> sq]
    ELSE [pc |-> "returned", status |-> "Error", file |-> NoFile]

\* send_message(message, host, port) when send_question ends as sq: the
\* pair returned; int(port) and send_question run inside "try", and
\* every Exception becomes an error status
ClientSendMessage(port, sq) ==
    IF ~IntOk(port) \/ sq = Raises
    THEN [pc |-> "returned", status |-> "Error", file |-> NoFile]
    ELSE IF sq.kind = "path"
    THEN [pc |-> "returned", status |-> "Message sent successfully",
          file |-> sq]
    ELSE [pc |-> "returned", status |-> "Error", file |-> NoFile]

\* one call of send_message; send_question is called only when int(port)
\* succeeded
SmCall(port, sq) ==
    /\ smPc = "idle"
    /\ smPort' = port
    /\ smAudio' = IF IntOk(port) THEN sq ELSE Pending
    /\ smPc' = ClientSendMessage(port, sq).pc
    /\ smReturn' = ClientSendMessage(port, sq)
    /\ UNCHANGED <<tcpVars, wsVars, agentVars, retryVars>>

\* the caller takes the pair and may call again
SmDone ==
    /\ smPc = "returned"
    /\ smPc' = "idle"
    /\ UNCHANGED <<smPort, smAudio, smReturn>>
    /\ UNCHANGED <<tcpVars, wsVars, agentVars, retryVars>>

NextStatus ==
    \/ \E port \in Ports, sq \in SqOutcomes : SmCall(port, sq)
    \/ SmDone

SpecStatus == Init /\ [][NextStatus]_vars

\* ----------------------------------------------------------- properties
\* the question of the request a conversation ends with
Question(msgs) == msgs[Len(msgs)].content

\* the audio of a request that opens a conversation with question q
ExpectedAudio(q) ==
    SynthesizeStub(AssistStub(
        system_prompt_assistant \o <<message_maker("user", Strip(q))>>))

\* C1 (as claimed): round trip over the framing: for a payload without the
\* end marker the client accumulates exactly the payload, however the
\* transport splits the stream into reads.
C1_RoundTrip ==
    (cpc[1] = "done" /\ ~Contains(audio_data, END_MARKER))
        => audio[1] = audio_data

\* C2 (as claimed): with a single client whose question was stored and
\* both providers succeeding, send_question ends with a file that holds
\* exactly synthesize(assist(q)).
C2_EndToEnd ==
    \A c \in Conns :
        ( /\ \A d \in Conns \ {c} : cpc[d] = "init"
          /\ ServerUp
          /\ Truthy(message[c])
          /\ cpc[c] = "done"
          /\ result[c] # Failure )
        => result[c] = TempFile(ExpectedAudio(question[c]))

\* C3 (as claimed): a read loop that ends on a zero-length read, that is
\* before it has seen the end marker, makes send_question report failure.
C3_EarlyClose ==
    [][\A c \in Conns :
          ( /\ cpc[c] = "reading"
            /\ cpc'[c] = "done"
            /\ rpos[c] = Len(s2c[c]) )
          => result'[c] = Failure]_vars

\* C4 (as claimed): when the Answer Provider failed for the request of the
\* only client, that client ends with a failure and without audio bytes.
C4_FailurePropagation ==
    \A c \in Conns :
        ( /\ \A d \in Conns \ {c} : cpc[d] = "init"
          /\ pollPc = "assist_raised"
          /\ cpc[c] = "done" )
        => (result[c] = Failure /\ audio[c] = <<>>)

\* C5: once a provider has failed nothing is written to any connection,
\* the connection that was active for the failed cycle has never been
\* written to, and every accepted connection is closed.
C5_ProviderFailureAborts ==
    [][pollPc' \in Raised =>
          /\ s2c' = s2c
          /\ \A c \in Conns : hpc'[c] \in {"none", "closed"}
          /\ \A c \in Conns :
                (message[c] = received_message /\ hpc[c] # "none")
                    => hpc'[c] = "closed"
          /\ client_writer' # NoConn => s2c'[client_writer'] = <<>>]_vars

\* C5 witness: a provider failed for a stored request whose connection is
\* closed and carries no byte.
C5_Witness ==
    /\ pollPc \in Raised
    /\ \E c \in Conns :
          /\ message[c] = received_message
          /\ client_writer = c
          /\ hpc[c] = "closed"
          /\ s2c[c] = <<>>

\* C6 (as claimed): bytes are written to a connection only in the cycle
\* that processes the question read from that connection.
C6_NoCrossTalk ==
    [][\A c \in Conns : s2c'[c] # s2c[c] => message[c] = Question(content)]_vars

\* C7 (as claimed): a connection that waits to be accepted is never left
\* with a server that an earlier request's error has stopped.
C7_ErrorContainment ==
    \A c \in Conns :
        (cpc[c] \in {"connected", "reading"} /\ hpc[c] = "none") => ServerUp

\* C8 (as claimed): a request that follows a request which was answered on
\* its own connection is processed from its own question alone: what the
\* Answer Provider is handed holds nothing of the earlier request.
C8_Isolation ==
    \A c, d \in Conns :
        ( /\ c # d
          /\ hpc[d] = "closed" /\ cpc[d] = "done"
          /\ result[d] = TempFile(ExpectedAudio(question[d]))
          /\ pollPc \in {"speech", "send"}
          /\ client_writer = c
          /\ message[c] = received_message )
        => content = system_prompt_assistant
                        \o <<message_maker("user", received_message)>>

\* C9: the steps of a cycle follow in the order request read, Answer
\* Provider, Speech Provider, framed send, context cleared; the Speech
\* Provider gets the answer of this request; bytes are written by the
\* send step only.
C9_CycleOrder ==
    [][/\ pollPc' # pollPc =>
             <<pollPc, pollPc'>> \in
                 {<<"sleep", "speech">>, <<"sleep", "assist_raised">>,
                  <<"speech", "send">>, <<"speech", "speech_raised">>,
                  <<"send", "sleep">>}
       /\ s2c' # s2c => (pollPc = "send" /\ pollPc' = "sleep")
       /\ (pollPc = "sleep" /\ pollPc' = "speech") =>
             /\ Truthy(received_message)
             /\ \E c \in Conns : /\ hpc[c] \in {"wait", "closed"}
                                 /\ message[c] = received_message
             /\ Question(content') = received_message
             /\ answer'[2].content = AssistStub(content')
       /\ (pollPc = "speech" /\ pollPc' = "send") =>
             /\ Question(content) = received_message
             /\ answer[2].content = AssistStub(content)
             /\ audio_data' = SynthesizeStub(AssistStub(content))
       /\ (pollPc = "send" /\ pollPc' = "sleep") =>
             /\ received_message' = NoMessage
             /\ status' => (client_writer' = NoConn /\ client_address' = NoConn)
             /\ \A c \in Conns :
                   s2c'[c] # s2c[c] =>
                       s2c'[c] = s2c[c] \o SynthesizeStub(AssistStub(content))
                                        \o END_MARKER]_vars

\* C9 witness: a second cycle has run to its end and its response is on
\* the wire.
C9_Witness ==
    /\ pollPc = "sleep"
    /\ status = TRUE
    /\ Len(history) = 4
    /\ received_message = NoMessage
    /\ \E c \in Conns : s2c[c] = audio_data \o END_MARKER

\* C10 (as claimed): while the server runs, handle_client closes a
\* connection whose question it stored only after the end marker has been
\* written to that connection.
C10_HeldUntilAnswered ==
    [][\A c \in Conns :
          ( /\ hpc[c] # "closed"
            /\ hpc'[c] = "closed"
            /\ Truthy(message'[c])
            /\ ServerUp' )
          => Contains(s2c'[c], END_MARKER)]_vars

\* C11 (as claimed): at most one handle_client is open (accepted and not
\* yet closed) at any time.
C11_OneInFlight ==
    Cardinality({c \in Conns : hpc[c] \in {"read", "wait"}}) <= 1

C14_NoPartialState ==
    [][\A c \in Conns :
          (hpc[c] = "read" /\ hpc'[c] = "closed" /\ message'[c] = message[c]
             /\ pollPc' = pollPc)
          => (client_writer' # c /\ client_address' # c)]_vars

\* C15: whenever send_question has opened a connection, that connection is
\* closed once send_question has exited: after a stored answer, after a
\* read error and after an error while storing the audio.
C15_ClientCleanup ==
    \A c \in Conns :
        (cpc[c] = "done" /\ cwriter[c] # "unbound") => cwriter[c] = "closed"

\* an exit through the error while storing the audio: the end marker was
\* read, nothing was returned, the connection is closed
C15_Witness ==
    \E c \in Conns :
        /\ cpc[c] = "done"
        /\ hpc[c] # "none"
        /\ Contains(s2c[c], END_MARKER)
        /\ result[c] = Failure
        /\ cwriter[c] = "closed"

\* C16 (as claimed): send_question never raises; a refused connection ends
\* with the return value None.
C16_NeverRaises ==
    \A c \in Conns : cpc[c] = "done" => result[c] # Raises

\* C17 (as claimed): a WebSocket handler that has handled the request of
\* its connection has sent exactly one message on that connection, the
\* audio or an error.
C17_OneResponse ==
    \A c \in Conns :
        (wsMessage[c] # NoMessage /\ wsHpc[c] \in {"recv", "closed"})
            => Len(wsOut[c]) = 1

\* C18: a WebSocket handler sends on its own connection only: the audio
\* written to a connection is the audio of the request that was received
\* on that connection, and a message is taken from the connection of the
\* handler that receives it.
C18_WsIndependence ==
    [][\A c \in Conns :
          /\ wsMessage'[c] # wsMessage[c] =>
                (wsIn[c] # <<>> /\ wsMessage'[c] = Head(wsIn[c]))
          /\ wsOut'[c] # wsOut[c] =>
                /\ wsHpc[c] \in {"assist", "speech"}
                /\ wsHpc'[c] = "recv"
                /\ \A d \in Conns \ {c} : wsOut'[d] = wsOut[d]
                /\ wsOut'[c][Len(wsOut'[c])].type = "binary" =>
                      /\ Len(wsHistory) >= 2
                      /\ wsHistory[Len(wsHistory) - 1] =
                             message_maker("user", wsMessage[c])
                      /\ wsOut'[c] = Append(wsOut[c],
                             AudioFrame(SynthesizeStub(
                                 wsHistory[Len(wsHistory)].content)))]_vars

\* two connections with different questions, the later connection was
\* handled first, and each client has got the audio of its own request
C18_Witness ==
    /\ NConns >= 2
    /\ wsMessage[1] # wsMessage[2]
    /\ Len(wsHistory) >= 4
    /\ wsHistory[1] = message_maker("user", wsMessage[2])
    /\ wsHistory[3] = message_maker("user", wsMessage[1])
    /\ wsResult[2] = TempFile(SynthesizeStub(wsHistory[2].content))
    /\ wsResult[1] = TempFile(SynthesizeStub(wsHistory[4].content))

\* C19: a successful send_message writes the payload, whatever its length,
\* followed by the end marker once: the bytes written to the connection
\* are exactly the payload and then the marker.
C19_WriteSide ==
    [][(pollPc = "send" /\ pollPc' = "sleep" /\ status') =>
          /\ client_writer # NoConn
          /\ hpc[client_writer] # "closed" =>
                s2c'[client_writer] =
                    s2c[client_writer] \o audio_data \o END_MARKER
          /\ \A c \in Conns \ {client_writer} : s2c'[c] = s2c[c]]_vars

\* a payload of more than one chunk whose length is not a multiple of the
\* chunk size has been written
C19_Witness ==
    /\ pollPc = "sleep" /\ status
    /\ Len(audio_data) > ChunkSize
    /\ Len(audio_data) % ChunkSize # 0
    /\ s2c[1] = audio_data \o END_MARKER

\* C20: a read whose buffer contains the end marker appends the bytes of
\* that buffer before the first occurrence of the marker and ends the
\* reading; nothing is read or appended afterwards.
C20_ReadSide ==
    [][\A c \in Conns :
          /\ (cpc[c] = "reading" /\ rpos'[c] # rpos[c]) =>
                LET chunk == SubSeq(s2c[c], rpos[c] + 1, rpos'[c]) IN
                IF Contains(chunk, END_MARKER)
                THEN /\ audio'[c] = audio[c] \o
                            Prefix(chunk, Find(chunk, END_MARKER) - 1)
                     /\ cpc'[c] = "done"
                     /\ result'[c] \in {TempFile(audio'[c]), Failure}
                ELSE /\ audio'[c] = audio[c] \o chunk
                     /\ cpc'[c] = "reading"
          /\ cpc[c] = "done" =>
                (rpos'[c] = rpos[c] /\ audio'[c] = audio[c]
                    /\ result'[c] = result[c])]_vars

\* a payload that holds the end marker was cut at the marker: the bytes
\* behind it were read in the same buffer and dropped, the rest of the
\* stream was never read
C20_Witness ==
    /\ cpc[1] = "done"
    /\ Contains(audio_data, END_MARKER)
    /\ Find(audio_data, END_MARKER) + Len(END_MARKER) <= Len(audio_data)
    /\ result[1] = TempFile(Prefix(audio_data, Find(audio_data, END_MARKER) - 1))
    /\ rpos[1] > Len(result[1].data) + Len(END_MARKER)
    /\ rpos[1] < Len(s2c[1])

\* C21 (as claimed): what handle_client stores for the Answer Provider is
\* the whole text the client wrote, trimmed, however the transport hands
\* the client's bytes to the one read.
C21_ReadInFull ==
    [][\A c \in Conns :
          message'[c] # message[c] => message'[c] = Strip(question[c])]_vars

\* C22 (as claimed): send_message returns True only when the payload and
\* the end marker have been written to the active client; without an
\* active client, or for another address, it writes nothing and returns
\* False.
C22_SendResult ==
    [][(pollPc = "send" /\ pollPc' = "sleep") =>
          IF status'
          THEN /\ send_active(client_address)
               /\ s2c'[client_writer] =
                      s2c[client_writer] \o audio_data \o END_MARKER
          ELSE /\ ~send_active(client_address)
               /\ s2c' = s2c]_vars

\* C23: constructing a MultiModelAgent with a model name that matches no
\* known provider raises "Unrecognized model" in __init__, and a
\* request-time step runs only on an agent whose provider is resolved.
C23_UnrecognizedIsFatal ==
    /\ ( /\ agPc # "new"
         /\ ~Contains(Lower(agName), <<"g", "p", "t">>)
         /\ ~Contains(Lower(agName), <<"q", "w", "e", "n">>)
         /\ agModule = "agents" => ~Contains(Lower(agName), <<"t", "t", "s">>)
         /\ agModule = "instances" =>
                ~Contains(Lower(agName), <<"c", "l", "a", "u", "d", "e">>) )
       => (agPc = "raised" /\ agError = "Unrecognized model"
              /\ agType = "unset")
    /\ agUsed => agType \in {"CHATGPT", "QWEN", "CLAUDE"}

\* the name "llama" was refused by the constructor of app/agents
C23_Witness ==
    /\ agModule = "agents"
    /\ agName = <<"l", "l", "a", "m", "a">>
    /\ agPc = "raised"
    /\ agError = "Unrecognized model"

C24_WsErrorReply ==
    [][\A c \in Conns :
          /\ (wsHpc[c] = "assist" /\ wsHpc'[c] \notin {"assist", "speech"}) =>
                wsOut'[c] = Append(wsOut[c], ErrorFrame)
          /\ (wsOut'[c] # wsOut[c]
                /\ wsOut'[c][Len(wsOut'[c])] = ErrorFrame) =>
                /\ wsOut'[c] = Append(wsOut[c], ErrorFrame)
                /\ wsHpc[c] \in {"assist", "speech"}
                /\ wsHpc'[c] = "recv"
                /\ \A d \in Conns \ {c} :
                      wsOut'[d] = wsOut[d] /\ wsHpc'[d] = wsHpc[d]]_vars

\* the request of connection 1 failed in the Speech Provider and was
\* answered with the error; the request of connection 2, handled
\* afterwards, was answered with its audio
C24_Witness ==
    /\ NConns >= 2
    /\ wsOut[1] = <<ErrorFrame>>
    /\ wsHpc[1] = "recv"
    /\ Len(wsHistory) = 4
    /\ wsHistory[1] = message_maker("user", wsMessage[1])
    /\ wsHistory[3] = message_maker("user", wsMessage[2])
    /\ wsOut[2] = <<AudioFrame(SynthesizeStub(wsHistory[4].content))>>

\* C25: when the Answer Provider failed for the request of a connection,
\* WebSocketClient.send_question on that connection never returns a file
\* and ends with None.
C25_WsFailurePropagation ==
    \A c \in Conns :
        (wsMessage[c] # NoMessage /\ wsAnswer[c] = <<>>
            /\ wsHpc[c] \in {"recv", "closed"}) =>
            /\ wsResult[c] \in {Pending, Failure}
            /\ wsCpc[c] = "done" => wsResult[c] = Failure

\* the Answer Provider failed, the client received the error message and
\* returned None
C25_Witness ==
    \E c \in Conns :
        /\ wsMessage[c] # NoMessage /\ wsAnswer[c] = <<>>
        /\ wsOut[c] = <<ErrorFrame>>
        /\ wsCpc[c] = "done"
        /\ wsResult[c] = Failure

\* C27: the cycle for a message ends with received_message None whatever
\* send_message returned; a provider is called only for a non-empty
\* received_message, which is the question submitted; and there are never
\* more submissions than messages stored, so no stored message is
\* submitted twice.
C27_AtMostOnce ==
    /\ [][/\ (pollPc = "send" /\ pollPc' = "sleep") =>
                received_message' = NoMessage
          /\ (pollPc = "sleep" /\ pollPc' # "sleep") =>
                Truthy(received_message)
          /\ content' # content =>
                (pollPc = "sleep" /\ Question(content') = received_message)]_vars
    /\ [](Len(history) <=
              2 * Cardinality({c \in Conns : Truthy(message[c])}))

\* a cycle in which send_message returned False has ended and the message
\* is gone
C27_Witness ==
    /\ pollPc = "sleep"
    /\ Len(history) >= 2
    /\ status = FALSE
    /\ received_message = NoMessage

\* C28: make_request opens at most MAX_RETRIES + 1 connections for one
\* question; it tries again only after a timeout or a WebSocketException
\* and only while retry_count < MAX_RETRIES; it always ends with a
\* RequestResult, whose success says that no error was recorded.
C28_BoundedRetry ==
    /\ [](mrAttempts <= MAX_RETRIES + 1 /\ mrAttempts <= 4)
    /\ [][mrAttempts' > mrAttempts /\ mrPc = "attempt" =>
             /\ mrRetry < MAX_RETRIES
             /\ mrAttempts' = mrAttempts + 1
             /\ mrLog' # mrLog
             /\ mrLog'[Len(mrLog')] \in {"Request timed out", "WebSocket error"}]_vars
    /\ [][(mrLog' # mrLog /\ mrLog'[Len(mrLog')] = "Unexpected error") =>
             (mrPc' = "done" /\ mrAttempts' = mrAttempts)]_vars
    /\ [](mrPc = "done" =>
             /\ mrResult.question = mrQuestion
             /\ mrResult.success <=> mrResult.error = "None"
             /\ mrResult.success <=> Len(mrLog) < mrAttempts
             /\ ~mrResult.success => mrResult.error = mrLog[Len(mrLog)])
    /\ (mrPc = "attempt" ~> mrPc = "done")

\* the fourth attempt timed out as well and the error was returned
C28_Witness ==
    /\ mrPc = "done"
    /\ mrAttempts = MAX_RETRIES + 1
    /\ Len(mrLog) = 4
    /\ mrResult = RequestResult(mrQuestion, "Request timed out")

\* C29: send_message never raises; it returns the success status with the
\* file exactly when send_question was called and returned a path, and an
\* error status with None otherwise, also for a port that is not a number
\* and for a send_question that raises.
C29_StatusMapping ==
    smPc # "idle" =>
        /\ smPc = "returned"
        /\ IF smAudio.kind = "path"
           THEN /\ smReturn.status = "Message sent successfully"
                /\ smReturn.file = smAudio
           ELSE /\ smReturn.status = "Error"
                /\ smReturn.file = NoFile

\* send_question raised (the connection could not be opened) and
\* send_message returned an error status
C29_Witness ==
    /\ smPc = "returned"
    /\ IntOk(smPort)
    /\ smAudio = Raises
    /\ smReturn.status = "Error"
    /\ smReturn.file = NoFile

\* the steps of the server: the handlers and the polling loop
ServerNext ==
    \/ \E c \in Conns : HandlerAccept(c)
    \/ \E c \in Conns : HandlerRead(c)
    \/ \E c \in Conns : HandlerReadEmpty(c)
    \/ \E c \in Conns : HandlerWake(c)
    \/ AssistOk
    \/ AssistFail
    \/ SpeechOk
    \/ SpeechFail
    \/ SendResponse

\* C30 (as claimed): a handle_client that waits for its answer is never
\* stuck: as long as its connection is open the server has a step to
\* take, without the help of a further connection.
C30_EventuallyClosed ==
    \A c \in Conns : hpc[c] = "wait" => ENABLED ServerNext

\* C31 (as claimed): a non-empty question stored by handle_client stays in
\* received_message until the polling loop takes it up: no step outside a
\* cycle overwrites or clears it.
C31_NoRequestLost ==
    [][(Truthy(received_message) /\ pollPc = "sleep" /\ pollPc' = "sleep")
          => received_message' = received_message]_vars

\* C32 (as claimed): when send_message writes, client_writer is a
\* connection whose handler has not closed it.
C32_NoSendToClosed ==
    [][(pollPc = "send" /\ pollPc' = "sleep" /\ status') =>
          hpc[client_writer] # "closed"]_vars

\* C33: a connection is written to at most once: a write finds the
\* connection without any byte of the server and leaves one payload
\* followed by one end marker on it.
C33_OneResponsePerConn ==
    [][\A c \in Conns :
          s2c'[c] # s2c[c] =>
              /\ s2c[c] = <<>>
              /\ s2c'[c] = audio_data \o END_MARKER]_vars

\* two cycles have written, each to a connection of its own
C33_Witness ==
    /\ NConns >= 2
    /\ Len(history) >= 4
    /\ \A c \in 1 .. 2 :
          /\ Contains(s2c[c], END_MARKER)
          /\ Find(s2c[c], END_MARKER) = Len(s2c[c]) - Len(END_MARKER) + 1

C35_HistoryBookkeeping ==
    /\ [](agContext =>
            /\ Len(agHistory) = 2 * Len(agLog)
            /\ \A i \in 1 .. Len(agLog) :
                  /\ agHistory[2 * i - 1] = message_maker("user", agLog[i][1])
                  /\ agHistory[2 * i] = message_maker("assistant", agLog[i][2]))
    /\ [](~agContext => agHistory = <<>>)
    /\ [][agRaised' # agRaised => agHistory' = agHistory]_vars

\* an agent with context has answered two different questions and one
\* more call on it has raised
C35_Witness ==
    /\ agContext
    /\ agRaised >= 1
    /\ Len(agLog) >= 2
    /\ agLog[1][1] # agLog[2][1]
    /\ Len(agHistory) = 4

====
